---- MODULE Spec2Model ----
(***************************************************************************)
(* Model of memora's Neo4j interaction store                               *)
(* (src/memora/graph_db/neo4j/interaction.py, user.py).                    *)
(*                                                                         *)
(* The property graph is modelled as it is stored: `nodes` maps a node     *)
(* reference <<label, n>> to its properties, `edges` is the set of typed   *)
(* relationships.  Every Cypher statement of the source is an operator     *)
(* from graph to graph; every public coroutine is one action.  The vector  *)
(* index behind the vector_db_* callbacks is the variable `vec`.           *)
(* A single organisation is modelled, so the org_id of every MATCH is      *)
(* left implicit.  The text of a memory plays no part in any statement     *)
(* of the source and is left out.                                          *)
(***************************************************************************)
EXTENDS Integers, Sequences, FiniteSets, TLC

VARIABLES
    nodes,      \* node reference -> properties
    edges,      \* set of [type, src, dst, k] relationships
    vec,        \* vector index: set of <<user_id, memory_id>>
    nextIid,    \* next interaction id shortuuid.uuid() returns
    nextMid,    \* next memory id uuid.uuid4() returns
    ops,        \* number of interaction operations run so far
    faults,     \* number of operations in which a callback or commit failed
    last,       \* the operation that ran last, its inputs and its outcome
    pending     \* the calls that have read and not yet run their transaction

vars == <<nodes, edges, vec, nextIid, nextMid, ops, faults, last, pending>>

----------------------------------------------------------------------------
\* Bounds of the model.

MaxLen == 2         \* longest transcript given to save or update
MaxUsers == 2       \* users created
MaxOps == 3         \* operations of one run that explores transcripts
MaxStoreOps == 3    \* operations of one run that explores memories and faults
MaxDateOps == 3     \* operations of one run that explores dates and users
MaxTime == 2        \* latest interaction_date; two ticks make one calendar day
MaxFaults == 1      \* operations whose callback or commit fails
MaxNew == 1         \* memories of one call
MaxContrary == 1    \* contrary memories of one call
MaxCiteOps == 3     \* operations of one run that explores source positions
MaxRaceOps == 3     \* calls of one run that explores concurrent calls

NULL == "null"

Roles == {"user", "assistant"}
Contents == {"x", "y"}
Msgs == {[role |-> "user", content |-> "x"],
         [role |-> "user", content |-> "y"],
         [role |-> "assistant", content |-> "x"]}

SeqsUpTo(S, n) == UNION {[1..k -> S] : k \in 0..n}

Transcripts == SeqsUpTo(Msgs, MaxLen)
Times == 0..MaxTime

\* Ids that are never minted: shortuuid.uuid() returns 1, 2, ... for
\* interactions and users, uuid.uuid4() returns 1, 2, ... for memories.
NoIid == MaxOps + MaxStoreOps + MaxDateOps + MaxCiteOps + MaxRaceOps + 1
NoMid ==
    (MaxOps + MaxStoreOps + MaxDateOps + MaxCiteOps + MaxRaceOps)
        * (MaxNew + MaxContrary) + 1
NoUser == MaxUsers + 1

\* date(datetime($interaction_date)): the calendar day of a timestamp.
Day(t) == t \div 2

Max(S) == CHOOSE x \in S : \A y \in S : y <= x
Min(S) == CHOOSE x \in S : \A y \in S : x <= y

\* Set of the elements of a sequence.
Range(s) == {s[k] : k \in 1..Len(s)}

----------------------------------------------------------------------------
\* The property graph.

Graph(n, e) == [n |-> n, e |-> e]

NodesOf(G, lbl) == {x \in DOMAIN G.n : x[1] = lbl}

\* (s)-[:t]->(x)
OutNbrs(G, s, t) == {f.dst : f \in {h \in G.e : h.src = s /\ h.type = t}}

\* (x)-[:t]->(d)
InNbrs(G, d, t) == {f.src : f \in {h \in G.e : h.dst = d /\ h.type = t}}

\* A node reference of label lbl the store does not hold.
FreshRefs(G, lbl, cnt) ==
    LET base == Max({x[2] : x \in NodesOf(G, lbl)} \cup {0})
    IN [k \in 1..cnt |-> <<lbl, base + k>>]

\* CREATE (x:lbl {props})
CreateNode(G, x, props) == Graph((x :> props) @@ G.n, G.e)

\* CREATE (s)-[:t]->(d): a relationship is created even when an equal one exists.
CreateEdge(G, t, s, d) ==
    LET same == {h \in G.e : h.type = t /\ h.src = s /\ h.dst = d}
    IN Graph(G.n, G.e \cup {[type |-> t, src |-> s, dst |-> d,
                            k |-> Cardinality(same) + 1]})

\* MERGE (s)-[:t]->(d)
MergeEdge(G, t, s, d) ==
    IF \E h \in G.e : h.type = t /\ h.src = s /\ h.dst = d
    THEN G
    ELSE CreateEdge(G, t, s, d)

\* DETACH DELETE X
DetachDelete(G, X) ==
    Graph([x \in (DOMAIN G.n) \ X |-> G.n[x]],
          {h \in G.e : h.src \notin X /\ h.dst \notin X})

\* MATCH (interaction:Interaction {org_id, user_id, interaction_id})
MatchInteraction(G, u, iid) ==
    {x \in NodesOf(G, "Interaction") : x[2] = iid /\ G.n[x].user_id = u}

\* MATCH (u:User {org_id, user_id})
MatchUser(G, u) == {x \in NodesOf(G, "User") : x[2] = u}

\* One hop of -[:FIRST_MESSAGE|IS_NEXT]->
Hop(G, x) == OutNbrs(G, x, "FIRST_MESSAGE") \cup OutNbrs(G, x, "IS_NEXT")

\* The rows of (x)-[:FIRST_MESSAGE|IS_NEXT*]->(m), one per path, in the order
\* the depth-first expansion yields them.  Cypher fixes no order among the
\* relationships leaving one node, so every order of the branches is a result.
RECURSIVE Tree(_, _), Forest(_, _)
Tree(G, b) == {<<b>> \o f : f \in Forest(G, Hop(G, b))}
Forest(G, S) ==
    IF S = {} THEN {<<>>}
    ELSE UNION {{w \o r : w \in Tree(G, x), r \in Forest(G, S \ {x})} : x \in S}

\* MATCH (interaction {..})-[r:FIRST_MESSAGE|IS_NEXT*]->(m:MessageBlock)
ChainRows(G, u, iid) ==
    LET I == MatchInteraction(G, u, iid)
    IN IF I = {} THEN {<<>>}
       ELSE UNION {Forest(G, Hop(G, i)) : i \in I}

\* The blocks reachable from the interaction.
ChainBlocks(G, u, iid) == UNION {Range(w) : w \in ChainRows(G, u, iid)}

----------------------------------------------------------------------------
\* Message chains (interaction.py:14-65, 238-246, 290-314).

\* {msg_position: idx, role: $messages[idx].role, content: $messages[idx].content}
\* $messages[idx] is null past the end of the list, and a null property is
\* not stored.
BlockProps(messages, idx) ==
    [msg_position |-> idx,
     role |-> IF idx < Len(messages) THEN messages[idx + 1].role ELSE NULL,
     content |-> IF idx < Len(messages) THEN messages[idx + 1].content ELSE NULL]

\* UNWIND RANGE(lo, hi) AS idx CREATE (msg:MessageBlock {...})
CreateBlocks(G, messages, lo, hi) ==
    LET cnt == IF hi >= lo THEN hi - lo + 1 ELSE 0
        refs == FreshRefs(G, "MessageBlock", cnt)
        new == [k \in 1..cnt |-> BlockProps(messages, lo + k - 1)]
        idx(x) == CHOOSE k \in 1..cnt : refs[k] = x
    IN [G |-> Graph([x \in Range(refs) |-> new[idx(x)]] @@ G.n, G.e),
        refs |-> refs]

\* UNWIND RANGE(1, SIZE(nodeList) - 1) AS idx
\* CREATE (nodeList[idx - 1])-[:IS_NEXT]->(nodeList[idx])
LinkChain(G, nodeList) ==
    Graph(G.n, G.e \cup {[type |-> "IS_NEXT", src |-> nodeList[k - 1],
                          dst |-> nodeList[k], k |-> 1] : k \in 2..Len(nodeList)})

\* _add_messages_to_interaction_from_top
AddMessagesFromTop(G, u, iid, messages) ==
    LET I == MatchInteraction(G, u, iid)
    IN IF I = {} THEN G
       ELSE LET i == CHOOSE x \in I : TRUE
                first == CreateBlocks(G, messages, 0, 0)
                msg1 == first.refs[1]
                G1 == CreateEdge(first.G, "FIRST_MESSAGE", i, msg1)
                rest == CreateBlocks(G1, messages, 1, Len(messages) - 1)
            IN IF rest.refs = <<>> THEN G1
               ELSE LinkChain(rest.G, <<msg1>> \o rest.refs)

\* The statement of _append_messages_to_interaction for one row m.
ExtendTail(G, m, messages) ==
    LET new == CreateBlocks(G, messages, G.n[m].msg_position + 1,
                            Len(messages) - 1)
    IN IF new.refs = <<>> THEN G
       ELSE LinkChain(new.G, <<m>> \o new.refs)

RECURSIVE ExtendTails(_, _, _)
ExtendTails(G, tails, messages) ==
    IF tails = {} THEN G
    ELSE LET m == CHOOSE x \in tails : \A y \in tails : x[2] <= y[2]
         IN ExtendTails(ExtendTail(G, m, messages), tails \ {m}, messages)

\* _append_messages_to_interaction: every m with no outgoing IS_NEXT is a row.
AppendMessages(G, u, iid, messages) ==
    LET tails == {m \in ChainBlocks(G, u, iid) : OutNbrs(G, m, "IS_NEXT") = {}}
    IN ExtendTails(G, tails, messages)

\* The end nodes of the paths of exactly k hops from the nodes X.
RECURSIVE AtDepth(_, _, _)
AtDepth(G, X, k) ==
    IF k = 0 THEN X
    ELSE AtDepth(G, UNION {Hop(G, x) : x \in X}, k - 1)

\* (m)-[:IS_NEXT*]->(n)
RECURSIVE Descendants(_, _)
Descendants(G, X) ==
    LET N == UNION {OutNbrs(G, x, "IS_NEXT") : x \in X}
    IN IF N = {} THEN {} ELSE N \cup Descendants(G, N)

\* The block the traversal ends at is deleted with its descendants.
TruncateMessagesWithAnchor(G, u, iid, k) ==
    LET ms == {m \in AtDepth(G, MatchInteraction(G, u, iid), k) :
                   m[1] = "MessageBlock"}
    IN DetachDelete(G, ms \cup Descendants(G, ms))

\* MATCH (interaction)-[:FIRST_MESSAGE|IS_NEXT*k]->(m) MATCH (m)-[:IS_NEXT*]->(n)
\* DETACH DELETE n
TruncateMessages(G, u, iid, k) ==
    LET ms == {m \in AtDepth(G, MatchInteraction(G, u, iid), k) :
                   m[1] = "MessageBlock"}
    IN DetachDelete(G, Descendants(G, ms))

\* get_interaction_messages: the property maps m{.*} of the rows; a read has
\* one result for each order of the rows.
GetInteractionMessages(G, u, iid) ==
    {[k \in 1..Len(w) |-> G.n[w[k]]] : w \in ChainRows(G, u, iid)}

\* The role and content of the messages read.
Plain(read) == [k \in 1..Len(read) |-> [role |-> read[k].role,
                                        content |-> read[k].content]]

\* The comparison loop of update_interaction_and_memories (lines 217-226).
\* existing[i]["role"] raises KeyError for a block stored without a role,
\* incoming[i] raises IndexError past the end of the incoming transcript.
RECURSIVE ScanFrom(_, _, _)
ScanFrom(existing, incoming, i) ==
    IF i > Len(existing) THEN [err |-> "none", at |-> -1]
    ELSE IF existing[i].role = NULL THEN [err |-> "KeyError", at |-> -1]
    ELSE IF i > Len(incoming) THEN [err |-> "IndexError", at |-> -1]
    ELSE IF existing[i].role # incoming[i].role THEN [err |-> "none", at |-> i - 1]
    ELSE IF existing[i].content = NULL THEN [err |-> "KeyError", at |-> -1]
    ELSE IF existing[i].content # incoming[i].content
         THEN [err |-> "none", at |-> i - 1]
    ELSE ScanFrom(existing, incoming, i + 1)

TruncateFrom(existing, incoming) ==
    IF Len(existing) = 0 THEN [err |-> "none", at |-> 0]
    ELSE ScanFrom(existing, incoming, 1)

\* The chain statements of update_tx (lines 231-249).
UpdateChain(G, u, iid, messages, truncate_from) ==
    IF truncate_from = -1 THEN AppendMessages(G, u, iid, messages)
    ELSE IF truncate_from = 0 THEN AddMessagesFromTop(G, u, iid, messages)
    ELSE AppendMessages(TruncateMessages(G, u, iid, truncate_from),
                        u, iid, messages)

----------------------------------------------------------------------------
\* Memories (interaction.py:67-130, 316-338).

\* MATCH (user:User {..})-[:HAS_MEMORIES]->(mc)
MemoryCollections(G, u) ==
    UNION {OutNbrs(G, x, "HAS_MEMORIES") : x \in MatchUser(G, u)}

\* MATCH (memory:Memory {org_id, user_id, memory_id})
MatchMemory(G, u, mid) ==
    {x \in NodesOf(G, "Memory") : x[2] = mid /\ G.n[x].user_id = u}

\* messages[source_msg_pos] is null past the end of the collected list, and
\* CREATE (null)<-[:MESSAGE_SOURCE]-(memory) fails the statement.
AddMemoriesFails(G, u, rows, mems) ==
    /\ rows # <<>>
    /\ MemoryCollections(G, u) # {}
    /\ \E k \in 1..Len(mems) : \E p \in mems[k].src : p >= Len(rows)

\* The statement of _add_memories_with_their_source_links for one memory_tuple.
AddMemory(G, u, agent, iid, t, rows, mem) ==
    LET i == CHOOSE x \in MatchInteraction(G, u, iid) : TRUE
        mc == CHOOSE x \in MemoryCollections(G, u) : TRUE
        memory == <<"Memory", mem.id>>
        G1 == CreateNode(G, memory, [user_id |-> u, agent_id |-> agent,
                                     interaction_id |-> iid, obtained_at |-> t])
        G2 == CreateEdge(G1, "INTERACTION_SOURCE", memory, i)
        G3 == CreateEdge(G2, "INCLUDES", mc, memory)
    IN Graph(G3.n, G3.e \cup {[type |-> "MESSAGE_SOURCE", src |-> memory,
                               dst |-> rows[p + 1], k |-> 1] : p \in mem.src})

RECURSIVE AddMemoriesFrom(_, _, _, _, _, _, _, _)
AddMemoriesFrom(G, u, agent, iid, t, rows, mems, k) ==
    IF k > Len(mems) THEN G
    ELSE AddMemoriesFrom(AddMemory(G, u, agent, iid, t, rows, mems[k]),
                         u, agent, iid, t, rows, mems, k + 1)

\* _add_memories_with_their_source_links; rows is collect(m), the blocks of
\* the chain in the order the MATCH yields them.
AddMemories(G, u, agent, iid, t, rows, mems) ==
    IF rows = <<>> \/ MemoryCollections(G, u) = {} THEN G
    ELSE AddMemoriesFrom(G, u, agent, iid, t, rows, mems, 1)

\* _link_update_contrary_memories_to_existing_memories; pairs are
\* (contrary_memory_id, existing_contrary_memory_id).
RECURSIVE LinkContraryFrom(_, _, _, _)
LinkContraryFrom(G, u, pairs, k) ==
    IF k > Len(pairs) THEN G
    ELSE LET new == MatchMemory(G, u, pairs[k].new)
             old == MatchMemory(G, u, pairs[k].old)
             G1 == IF new = {} \/ old = {} THEN G
                   ELSE MergeEdge(G, "CONTRARY_UPDATE",
                                  CHOOSE x \in old : TRUE, CHOOSE x \in new : TRUE)
         IN LinkContraryFrom(G1, u, pairs, k + 1)

\* The statement links nothing.
LinkContraryLinksNothing(G, u, pairs) == G

LinkContrary(G, u, pairs) == LinkContraryFrom(G, u, pairs, 1)

\* get_all_interaction_memories: the memory_id of the rows.
GetAllInteractionMemories(G, u, iid) ==
    UNION {{m[2] : m \in InNbrs(G, i, "INTERACTION_SOURCE")} :
               i \in MatchInteraction(G, u, iid)}

----------------------------------------------------------------------------
\* Date buckets and interaction metadata (interaction.py:149-171, 258-273).

MergeDateAlwaysCreates(G, u, day) ==
    LET d == FreshRefs(G, "Date", 1)[1]
    IN [G |-> CreateNode(G, d, [user_id |-> u, date |-> day]), dates |-> {d}]

\* MERGE (d:Date {org_id, user_id, date}): binds every node that matches and
\* creates one when none does.
MergeDate(G, u, day) ==
    LET found == {d \in NodesOf(G, "Date") :
                      G.n[d].user_id = u /\ G.n[d].date = day}
    IN IF found # {} THEN [G |-> G, dates |-> found]
       ELSE LET d == FreshRefs(G, "Date", 1)[1]
            IN [G |-> CreateNode(G, d, [user_id |-> u, date |-> day]),
                dates |-> {d}]

\* CREATE (i)-[:HAS_OCCURRENCE_ON]->(d) for every row d.
RECURSIVE CreateOccurrences(_, _, _)
CreateOccurrences(G, i, D) ==
    IF D = {} THEN G
    ELSE LET d == CHOOSE x \in D : TRUE
         IN CreateOccurrences(CreateEdge(G, "HAS_OCCURRENCE_ON", i, d), i, D \ {d})

\* MERGE (i)-[:HAS_OCCURRENCE_ON]->(d) for every row d.
RECURSIVE MergeOccurrences(_, _, _)
MergeOccurrences(G, i, D) ==
    IF D = {} THEN G
    ELSE LET d == CHOOSE x \in D : TRUE
         IN MergeOccurrences(MergeEdge(G, "HAS_OCCURRENCE_ON", i, d), i, D \ {d})

\* The first statement of save_tx (lines 149-171).
CreateInteraction(G, u, agent, iid, t) ==
    LET ics == UNION {OutNbrs(G, x, "INTERACTIONS_IN") : x \in MatchUser(G, u)}
    IN IF ics = {} THEN G
       ELSE LET ic == CHOOSE x \in ics : TRUE
                i == <<"Interaction", iid>>
                G1 == CreateNode(G, i, [user_id |-> u, agent_id |-> agent,
                                        created_at |-> t, updated_at |-> t])
                G2 == CreateEdge(G1, "HAD_INTERACTION", ic, i)
                D == MergeDate(G2, u, Day(t))
            IN CreateOccurrences(D.G, i, D.dates)

\* The metadata statement of update_tx (lines 258-273).
SetMetadata(G, u, agent, iid, t) ==
    LET I == MatchInteraction(G, u, iid)
    IN IF I = {} THEN G
       ELSE LET i == CHOOSE x \in I : TRUE
                G1 == Graph([G.n EXCEPT ![i].updated_at = t, ![i].agent_id = agent],
                            G.e)
                D == MergeDate(G1, u, Day(t))
            IN MergeOccurrences(D.G, i, D.dates)

----------------------------------------------------------------------------
\* The vector index behind the vector_db_* callbacks (spec section 6).

\* addMemories(ids, ...): idempotent upsert.
VecAdd(V, u, ids) == V \cup {<<u, id>> : id \in ids}

\* deleteMemoriesById(ids): tolerates ids that are absent.
VecDeleteByIds(V, ids) == {e \in V : e[2] \notin ids}

\* deleteAllUserMemories(orgId, userId)
VecDeleteAll(V, u) == {e \in V : e[1] # u}

----------------------------------------------------------------------------
\* Transactions.

ExecuteWriteKeepsWrites(pre, post, raised) == post

\* session.execute_write(tx): the writes of the transaction function are
\* committed when it returns and rolled back when it raises.
ExecuteWrite(pre, post, raised) == IF raised THEN pre ELSE post

\* The statements save_tx runs, in the order of lines 149-191: the memory
\* statements and the callback only when the call brings memories.
SaveProgram(mems, pairs) ==
    <<"create_interaction", "from_top">>
        \o (IF mems # <<>> THEN <<"add_memories">> ELSE <<>>)
        \o (IF pairs # <<>> THEN <<"link_contrary">> ELSE <<>>)
        \o (IF mems # <<>> THEN <<"vector_add">> ELSE <<>>)

\* The callback of update_tx before its metadata statement.
UpdateProgramCallbackFirst(truncate_from, mems, pairs) ==
    (IF truncate_from = -1 THEN <<"append">>
     ELSE IF truncate_from = 0 THEN <<"from_top">>
     ELSE <<"truncate", "append">>)
        \o (IF mems # <<>> THEN <<"add_memories">> ELSE <<>>)
        \o (IF pairs # <<>> THEN <<"link_contrary">> ELSE <<>>)
        \o (IF mems # <<>> THEN <<"vector_add">> ELSE <<>>)
        \o <<"metadata">>

\* The statements update_tx runs, in the order of lines 231-282.
UpdateProgram(truncate_from, mems, pairs) ==
    (IF truncate_from = -1 THEN <<"append">>
     ELSE IF truncate_from = 0 THEN <<"from_top">>
     ELSE <<"truncate", "append">>)
        \o (IF mems # <<>> THEN <<"add_memories">> ELSE <<>>)
        \o (IF pairs # <<>> THEN <<"link_contrary">> ELSE <<>>)
        \o <<"metadata">>
        \o (IF mems # <<>> THEN <<"vector_add">> ELSE <<>>)

\* One statement of a transaction function on the graph G of the transaction.
\* c holds the arguments of the call; c.rows is collect(m), the blocks in the
\* order the MATCH of _add_memories_with_their_source_links yields them.
Effect(G, step, c) ==
    CASE step = "create_interaction" ->
             CreateInteraction(G, c.u, c.agent, c.iid, c.t)
      [] step = "from_top" -> AddMessagesFromTop(G, c.u, c.iid, c.messages)
      [] step = "append" -> AppendMessages(G, c.u, c.iid, c.messages)
      [] step = "truncate" -> TruncateMessages(G, c.u, c.iid, c.tf)
      [] step = "add_memories" ->
             AddMemories(G, c.u, c.agent, c.iid, c.t, c.rows, c.mems)
      [] step = "link_contrary" -> LinkContrary(G, c.u, c.pairs)
      [] step = "metadata" -> SetMetadata(G, c.u, c.agent, c.iid, c.t)
      [] OTHER -> G

\* The statement raises.
Raises(G, step, c) ==
    step = "add_memories" /\ AddMemoriesFails(G, c.u, c.rows, c.mems)

\* await tx.run(...) / await vector_db_add_memories_fn(...): an exception
\* leaves the transaction function at the statement that raised.
RunStep(r, step, c) ==
    IF Raises(r.G, step, c)
    THEN [r EXCEPT !.err = TRUE, !.steps = Append(r.steps, step)]
    ELSE [G |-> Effect(r.G, step, c), err |-> r.err,
          called |-> r.called \/ step = "vector_add",
          steps |-> Append(r.steps, step)]

\* The statements after one that raised are run as well.
RECURSIVE RunFromPastError(_, _, _, _)
RunFromPastError(r, program, k, c) ==
    IF k > Len(program) THEN r
    ELSE RunFromPastError(RunStep(r, program[k], c), program, k + 1, c)

\* The transaction function: its statements in order, up to the first that
\* raises.
RECURSIVE RunFrom(_, _, _, _)
RunFrom(r, program, k, c) ==
    IF k > Len(program) \/ r.err THEN r
    ELSE RunFrom(RunStep(r, program[k], c), program, k + 1, c)

Begin(G) == [G |-> G, err |-> FALSE, called |-> FALSE, steps |-> <<>>]

\* save_tx (lines 146-193)
SaveTx(G, c) == RunFrom(Begin(G), SaveProgram(c.mems, c.pairs), 1, c)

\* update_tx (lines 229-284)
UpdateTx(G, c) == RunFrom(Begin(G), UpdateProgram(c.tf, c.mems, c.pairs), 1, c)

\* The statement of delete_tx (lines 354-365).
DeleteTx(G, u, iid) ==
    LET I == MatchInteraction(G, u, iid)
        message == ChainBlocks(G, u, iid)
        memory == UNION {InNbrs(G, i, "MESSAGE_SOURCE") : i \in I}
        date == {d \in UNION {OutNbrs(G, i, "HAS_OCCURRENCE_ON") : i \in I} :
                     d[1] = "Date" /\ InNbrs(G, d, "HAS_OCCURRENCE_ON") = {}}
    IN IF message = {} THEN G
       ELSE DetachDelete(G, I \cup message \cup memory \cup date)

\* The statement of delete_all_tx (lines 382-390).
DeleteAllTx(G, u) ==
    LET ics == UNION {OutNbrs(G, x, "INTERACTIONS_IN") : x \in MatchUser(G, u)}
        I == {i \in UNION {OutNbrs(G, ic, "HAD_INTERACTION") : ic \in ics} :
                  i[1] = "Interaction"}
        memory == {m \in UNION {InNbrs(G, i, "INTERACTION_SOURCE") : i \in I} :
                       m[1] = "Memory"}
        date == {d \in UNION {OutNbrs(G, i, "HAS_OCCURRENCE_ON") : i \in I} :
                     d[1] = "Date"}
        messages == UNION {UNION {Range(w) : w \in Forest(G, Hop(G, i))} : i \in I}
    IN DetachDelete(G, I \cup memory \cup date \cup messages)

\* The statement of create_user_tx (user.py:16-36).
CreateUserTx(G, user_id) ==
    IF NodesOf(G, "Org") = {} THEN G
    ELSE LET o == CHOOSE x \in NodesOf(G, "Org") : TRUE
             usr == <<"User", user_id>>
             ic == <<"InteractionCollection", user_id>>
             mc == <<"MemoryCollection", user_id>>
             G1 == CreateNode(G, usr, [user_id |-> user_id])
             G2 == CreateEdge(G1, "BELONGS_TO", usr, o)
             G3 == CreateNode(G2, ic, [user_id |-> user_id])
             G4 == CreateNode(G3, mc, [user_id |-> user_id])
             G5 == CreateEdge(G4, "INTERACTIONS_IN", usr, ic)
         IN CreateEdge(G5, "HAS_MEMORIES", usr, mc)

----------------------------------------------------------------------------
\* The operations.

G0 == Graph(nodes, edges)

Users == {x[2] : x \in NodesOf(G0, "User")}
Interactions == NodesOf(G0, "Interaction")
Memories == NodesOf(G0, "Memory")

NoOp == [op |-> "none", user |-> NoUser, iid |-> NoIid, agent |-> "agent1",
         t |-> 0, incoming |-> <<>>, existing |-> <<>>, tf |-> -1,
         found |-> FALSE, mids |-> {}, mems |-> <<>>, pairs |-> <<>>,
         steps |-> <<>>,
         raced |-> {}, called |-> FALSE, outcome |-> "ok"]

\* The arguments a transaction function closes over.
Args(u, agent, iid, t, messages, tf, rows, mems, pairs) ==
    [u |-> u, agent |-> agent, iid |-> iid, t |-> t, messages |-> messages,
     tf |-> tf, rows |-> rows, mems |-> mems, pairs |-> pairs]

\* The ids minted for the memories of one call (lines 143-144, 209-210), with
\* their source positions, and the (contrary, existing) pairs.
MemTuples(news, contras) ==
    [k \in 1..(Len(news) + Len(contras)) |->
        [id |-> nextMid + k - 1,
         src |-> IF k <= Len(news) THEN news[k] ELSE contras[k - Len(news)].src]]

ContraryPairs(news, contras) ==
    [k \in 1..Len(contras) |->
        [new |-> nextMid + Len(news) + k - 1, old |-> contras[k].existing]]

Outcome(tx, fault) ==
    IF tx.err THEN "db_error"
    ELSE IF tx.called /\ fault = "callback" THEN "callback_error"
    ELSE IF fault = "commit" THEN "commit_error"
    ELSE "ok"

\* A fault is injected only where the code can meet it.
FaultApplies(tx, fault) ==
    /\ fault # "none" => faults < MaxFaults /\ ~tx.err
    /\ fault = "callback" => tx.called

\* create_user (user.py:11-42)
CreateUser ==
    /\ Cardinality(Users) < MaxUsers
    /\ LET post == CreateUserTx(G0, Cardinality(Users) + 1)
       IN /\ nodes' = post.n
          /\ edges' = post.e
    /\ last' = [NoOp EXCEPT !.op = "create_user", !.user = Cardinality(Users) + 1]
    /\ UNCHANGED <<vec, nextIid, nextMid, ops, faults, pending>>

\* An end of operation that takes back what the callback did when the
\* transaction does not commit.
FinishCompensates(op, tx, fault, vecAfter) ==
    /\ FaultApplies(tx, fault)
    /\ \E outcome \in {Outcome(tx, fault)} :
         /\ \E post \in {ExecuteWrite(G0, tx.G, outcome # "ok")} :
              /\ nodes' = post.n
              /\ edges' = post.e
         /\ vec' = IF tx.called /\ outcome = "ok" THEN vecAfter ELSE vec
         /\ last' = [op EXCEPT !.called = tx.called, !.outcome = outcome,
                               !.steps = tx.steps]
    /\ ops' = ops + 1
    /\ faults' = IF fault = "none" THEN faults ELSE faults + 1

\* The end of an operation whose transaction function returned tx: the
\* commit or rollback, and what is recorded of it.
Finish(op, tx, fault, vecAfter) ==
    /\ FaultApplies(tx, fault)
    /\ \E outcome \in {Outcome(tx, fault)} :
         /\ \E post \in {ExecuteWrite(G0, tx.G, outcome # "ok")} :
              /\ nodes' = post.n
              /\ edges' = post.e
         /\ vec' = IF tx.called /\ outcome # "callback_error"
                   THEN vecAfter ELSE vec
         /\ last' = [op EXCEPT !.called = tx.called, !.outcome = outcome,
                               !.steps = tx.steps]
    /\ ops' = ops + 1
    /\ faults' = IF fault = "none" THEN faults ELSE faults + 1

\* save_interaction_with_memories (lines 133-196).  The interaction is new
\* and has one chain, so collect(m) has one order.
Save(u, agent, t, messages, news, contras, fault) ==
    \E mems \in {MemTuples(news, contras)},
       pairs \in {ContraryPairs(news, contras)},
       rows \in ChainRows(AddMessagesFromTop(
                              CreateInteraction(G0, u, agent, nextIid, t),
                              u, nextIid, messages), u, nextIid) :
      /\ \E tx \in {SaveTx(G0, Args(u, agent, nextIid, t, messages, 0, rows,
                                    mems, pairs))} :
           Finish([NoOp EXCEPT !.op = "save", !.user = u, !.iid = nextIid,
                               !.agent = agent, !.t = t, !.incoming = messages,
                               !.tf = 0, !.pairs = pairs,
                               !.mems = mems,
                               !.mids = {mems[k].id : k \in 1..Len(mems)}],
                  tx, fault,
                  VecAdd(vec, u, {mems[k].id : k \in 1..Len(mems)}))
      /\ nextMid' = nextMid + Len(mems)
      /\ nextIid' = nextIid + 1
      /\ UNCHANGED pending

\* update_interaction_and_memories after its read (lines 217-287): the
\* comparison loop on the transcript read, then update_tx on the graph as it
\* is when the transaction runs.
UpdateFrom(u, iid, agent, t, incoming, mems, pairs, existing, raced, fault) ==
    \E cut \in {TruncateFrom(existing, incoming)} :
      \E op \in {[NoOp EXCEPT !.op = "update", !.user = u, !.iid = iid,
                              !.agent = agent, !.t = t, !.incoming = incoming,
                              !.existing = existing, !.tf = cut.at,
                              !.found = MatchInteraction(G0, u, iid) # {},
                              !.pairs = pairs, !.raced = raced,
                              !.mems = mems,
                               !.mids = {mems[k].id : k \in 1..Len(mems)}]} :
        IF cut.err # "none"
        THEN /\ fault = "none"
             /\ last' = [op EXCEPT !.outcome = cut.err]
             /\ ops' = ops + 1
             /\ UNCHANGED <<nodes, edges, vec, faults>>
        ELSE \E rows \in ChainRows(UpdateChain(G0, u, iid, incoming, cut.at),
                                   u, iid) :
               \E tx \in {UpdateTx(G0, Args(u, agent, iid, t, incoming, cut.at,
                                            rows, mems, pairs))} :
                 Finish(op, tx, fault,
                        VecAdd(vec, u, {mems[k].id : k \in 1..Len(mems)}))

\* update_interaction_and_memories (lines 199-287) with nothing running
\* between its read and its transaction.
Update(u, iid, agent, t, incoming, news, contras, fault) ==
    /\ \E existing \in GetInteractionMessages(G0, u, iid) :
         UpdateFrom(u, iid, agent, t, incoming, MemTuples(news, contras),
                    ContraryPairs(news, contras), existing, {}, fault)
    /\ nextMid' = nextMid + Len(news) + Len(contras)
    /\ UNCHANGED <<nextIid, pending>>

\* delete_user_interaction_and_its_memories after its read (lines 352-371):
\* delete_tx on the graph as it is when the transaction runs, then the
\* callback with the ids read before.
DeleteFrom(u, iid, interaction_memories_ids, raced, fault) ==
    Finish([NoOp EXCEPT !.op = "delete", !.user = u, !.iid = iid,
                        !.found = MatchInteraction(G0, u, iid) # {},
                        !.mids = interaction_memories_ids, !.raced = raced],
           [G |-> DeleteTx(G0, u, iid), err |-> FALSE, called |-> TRUE,
            steps |-> <<"delete", "vector_delete">>],
           fault, VecDeleteByIds(vec, interaction_memories_ids))

\* delete_user_interaction_and_its_memories (lines 341-371) with nothing
\* running between its read and its transaction.
Delete(u, iid, fault) ==
    /\ DeleteFrom(u, iid, GetAllInteractionMemories(G0, u, iid), {}, fault)
    /\ UNCHANGED <<nextIid, nextMid, pending>>

\* A call that has done its read (line 213 of an update, line 349 of a
\* delete) and has not started its write transaction.  The ids of an update
\* are minted before the read (lines 209-210).
Call(op, u, iid, agent, t, incoming, existing, mems, pairs, ids) ==
    [op |-> op, user |-> u, iid |-> iid, agent |-> agent, t |-> t,
     incoming |-> incoming, existing |-> existing, mems |-> mems,
     pairs |-> pairs, ids |-> ids, raced |-> {},
     n |-> ops + Cardinality(pending)]

\* The calls still in flight after the transaction of call p has ended; a
\* call on the same interaction records that p committed after its read.
Others(p, committed) ==
    {IF committed /\ q.user = p.user /\ q.iid = p.iid
     THEN [q EXCEPT !.raced = q.raced \cup {p.op}] ELSE q : q \in pending \ {p}}

\* The read of update_interaction_and_memories (lines 209-213).
UpdateRead(u, iid, agent, t, incoming, news, contras) ==
    /\ \E existing \in GetInteractionMessages(G0, u, iid) :
         pending' = pending \cup
             {Call("update", u, iid, agent, t, incoming, existing,
                   MemTuples(news, contras), ContraryPairs(news, contras), {})}
    /\ nextMid' = nextMid + Len(news) + Len(contras)
    /\ UNCHANGED <<nodes, edges, vec, nextIid, ops, faults, last>>

\* The rest of update_interaction_and_memories (lines 217-287) for a call
\* that has read.
UpdateWrite(p) ==
    /\ p.op = "update"
    /\ UpdateFrom(p.user, p.iid, p.agent, p.t, p.incoming, p.mems, p.pairs,
                  p.existing, p.raced, "none")
    /\ pending' = Others(p, last'.outcome = "ok")
    /\ UNCHANGED <<nextIid, nextMid>>

\* The read of delete_user_interaction_and_its_memories (lines 349-350).
DeleteRead(u, iid) ==
    /\ pending' = pending \cup
           {Call("delete", u, iid, "agent1", 0, <<>>, <<>>, <<>>, <<>>,
                 GetAllInteractionMemories(G0, u, iid))}
    /\ UNCHANGED <<nodes, edges, vec, nextIid, nextMid, ops, faults, last>>

\* The rest of delete_user_interaction_and_its_memories (lines 352-371).
DeleteWrite(p) ==
    /\ p.op = "delete"
    /\ DeleteFrom(p.user, p.iid, p.ids, p.raced, "none")
    /\ pending' = Others(p, last'.outcome = "ok")
    /\ UNCHANGED <<nextIid, nextMid>>

\* delete_all_user_interactions_and_their_memories (lines 373-395)
DeleteAll(u, fault) ==
    /\ Finish([NoOp EXCEPT !.op = "delete_all", !.user = u],
              [G |-> DeleteAllTx(G0, u), err |-> FALSE, called |-> TRUE,
               steps |-> <<"delete_all", "vector_delete_all">>],
              fault, VecDeleteAll(vec, u))
    /\ UNCHANGED <<nextIid, nextMid, pending>>

----------------------------------------------------------------------------
\* Inputs and specifications.  Each specification explores one part of the
\* input space in full and holds the other inputs fixed.

Faults == {"none", "callback", "commit"}

\* source_msg_block_pos of a memory.
SrcSets == {{0}}

NewInputs == SeqsUpTo(SrcSets, MaxNew)

ContraInputs ==
    SeqsUpTo([src : SrcSets, existing : {m[2] : m \in Memories} \cup {NoMid}],
             MaxContrary)

\* The (user_id, interaction_id) scopes of a call: every stored interaction
\* under its user, and an interaction id that does not exist.
Scopes ==
    {<<nodes[i].user_id, i[2]>> : i \in Interactions}
        \cup {<<u, NoIid>> : u \in Users}

Hello == [role |-> "user", content |-> "x"]
Reply == [role |-> "assistant", content |-> "x"]

Init ==
    /\ nodes = (<<"Org", 1>> :> [org_id |-> "org"])
    /\ edges = {}
    /\ vec = {}
    /\ nextIid = 1
    /\ nextMid = 1
    /\ ops = 0
    /\ faults = 0
    /\ last = NoOp
    /\ pending = {}

\* The first user of the organisation.
CreateFirstUser == Users = {} /\ CreateUser

\* Transcripts: one user, every transcript, no memories, no faults.
ChainSave ==
    /\ ops < MaxOps
    /\ \E u \in Users, messages \in Transcripts :
         Save(u, "agent1", 0, messages, <<>>, <<>>, "none")

ChainUpdate ==
    /\ ops < MaxOps
    /\ \E sc \in Scopes, incoming \in Transcripts :
         Update(sc[1], sc[2], "agent2", 0, incoming, <<>>, <<>>, "none")

ChainDelete ==
    /\ ops < MaxOps
    /\ \E sc \in Scopes : Delete(sc[1], sc[2], "none")

Next ==
    \/ CreateFirstUser
    \/ ChainSave
    \/ ChainUpdate
    \/ ChainDelete

Spec == Init /\ [][Next]_vars

\* Memories and faults: one user, two transcripts that differ at index 1.
StoreTranscripts == {<<Hello, Reply>>, <<Hello, Hello>>}

StoreSave ==
    /\ ops < MaxStoreOps
    /\ \E u \in Users, messages \in StoreTranscripts, news \in NewInputs,
          contras \in ContraInputs, fault \in Faults :
         Save(u, "agent1", 0, messages, news, contras, fault)

StoreUpdate ==
    /\ ops < MaxStoreOps
    /\ \E sc \in Scopes, incoming \in StoreTranscripts, news \in NewInputs,
          contras \in ContraInputs, fault \in Faults :
         Update(sc[1], sc[2], "agent2", 0, incoming, news, contras, fault)

StoreDelete ==
    /\ ops < MaxStoreOps
    /\ \E sc \in Scopes, fault \in Faults : Delete(sc[1], sc[2], fault)

StoreDeleteAll ==
    /\ ops < MaxStoreOps
    /\ \E u \in Users, fault \in Faults : DeleteAll(u, fault)

NextStore ==
    \/ CreateFirstUser
    \/ StoreSave
    \/ StoreUpdate
    \/ StoreDelete
    \/ StoreDeleteAll

SpecStore == Init /\ [][NextStore]_vars

\* Dates and users: every interaction_date, one transcript, no memories.
DatesSave ==
    /\ ops < MaxDateOps
    /\ \E u \in Users, t \in Times :
         Save(u, "agent1", t, <<Hello>>, <<>>, <<>>, "none")

DatesUpdate ==
    /\ ops < MaxDateOps
    /\ \E sc \in Scopes, t \in Times :
         Update(sc[1], sc[2], "agent2", t, <<Hello, Reply>>, <<>>, <<>>, "none")

DatesDelete ==
    /\ ops < MaxDateOps
    /\ \E sc \in Scopes : Delete(sc[1], sc[2], "none")

DatesDeleteAll ==
    /\ ops < MaxDateOps
    /\ \E u \in Users : DeleteAll(u, "none")

NextDates ==
    \/ CreateUser
    \/ DatesSave
    \/ DatesUpdate
    \/ DatesDelete
    \/ DatesDeleteAll

SpecDates == Init /\ [][NextDates]_vars

\* Source positions: one user, memories that cite position 1 or a position
\* past the end of the transcript, no faults.
CiteSets == {{1}, {2}}

CiteInputs == SeqsUpTo(CiteSets, MaxNew)

CiteSave ==
    /\ ops < MaxCiteOps
    /\ \E u \in Users, messages \in StoreTranscripts, news \in CiteInputs :
         Save(u, "agent1", 0, messages, news, <<>>, "none")

CiteUpdate ==
    /\ ops < MaxCiteOps
    /\ \E sc \in Scopes, incoming \in StoreTranscripts, news \in CiteInputs :
         Update(sc[1], sc[2], "agent2", 0, incoming, news, <<>>, "none")

CiteDelete ==
    /\ ops < MaxCiteOps
    /\ \E sc \in Scopes : Delete(sc[1], sc[2], "none")

NextCite ==
    \/ CreateFirstUser
    \/ CiteSave
    \/ CiteUpdate
    \/ CiteDelete

SpecCite == Init /\ [][NextCite]_vars

\* Concurrent calls: one user, updates and deletes whose read and write
\* transaction are separate steps, no faults.
RaceTranscripts == {<<Hello>>, <<Hello, Reply>>, <<Hello, Hello>>}

RaceSave ==
    /\ ops + Cardinality(pending) < MaxRaceOps
    /\ \E u \in Users, messages \in RaceTranscripts :
         Save(u, "agent1", 0, messages, <<>>, <<>>, "none")

RaceUpdateRead ==
    /\ ops + Cardinality(pending) < MaxRaceOps
    /\ \E sc \in Scopes, incoming \in RaceTranscripts, news \in NewInputs :
         UpdateRead(sc[1], sc[2], "agent2", 0, incoming, news, <<>>)

RaceUpdateWrite == \E p \in pending : UpdateWrite(p)

RaceDeleteRead ==
    /\ ops + Cardinality(pending) < MaxRaceOps
    /\ \E sc \in Scopes : DeleteRead(sc[1], sc[2])

RaceDeleteWrite == \E p \in pending : DeleteWrite(p)

NextRace ==
    \/ CreateFirstUser
    \/ RaceSave
    \/ RaceUpdateRead
    \/ RaceUpdateWrite
    \/ RaceDeleteRead
    \/ RaceDeleteWrite

SpecRace == Init /\ [][NextRace]_vars

----------------------------------------------------------------------------
\* Properties.

\* What get_interaction_messages returns for the scope of the last operation:
\* one transcript for each order of the rows.
LastRead == {Plain(r) : r \in GetInteractionMessages(G0, last.user, last.iid)}

LastInteraction == MatchInteraction(G0, last.user, last.iid)

\* The chain of interaction i is one linear chain numbered 0..n-1.
LinearChain(i) ==
    LET B == ChainBlocks(G0, nodes[i].user_id, i[2])
    IN /\ Cardinality(OutNbrs(G0, i, "FIRST_MESSAGE")) = 1
       /\ {nodes[b].msg_position : b \in B} = 0..(Cardinality(B) - 1)
       /\ \A b, c \in B : nodes[b].msg_position = nodes[c].msg_position => b = c
       /\ \A b \in B : Cardinality(OutNbrs(G0, b, "IS_NEXT")) <= 1

\* C1: after any sequence of successful operations every stored interaction
\* has a strictly linear chain: one first block, positions exactly 0..n-1,
\* none twice, no block with two successors.
C1_LinearChain == \A i \in Interactions : LinearChain(i)

\* C2: a successful update whose first mismatch with the stored transcript
\* is at index k, 0 <= k < len(existing), leaves exactly the incoming
\* transcript stored.
C2_TruncateAndReplace ==
    (/\ last.op = "update"
     /\ last.outcome = "ok"
     /\ last.existing # <<>>
     /\ last.tf >= 0)
        => LastRead = {last.incoming}

\* C3: a successful update whose incoming transcript has the stored transcript
\* as a non-empty prefix leaves exactly the incoming transcript stored.
C3_AppendSuffix ==
    (/\ last.op = "update"
     /\ last.outcome = "ok"
     /\ last.existing # <<>>
     /\ last.tf = -1
     /\ Len(last.incoming) >= Len(last.existing))
        => LastRead = {last.incoming}

\* C4: after a successful delete of an existing interaction the store holds
\* neither the interaction, nor a block outside every chain, nor a memory
\* whose interaction_id is the deleted one.
C4_DeleteCascade ==
    (/\ last.op = "delete"
     /\ last.outcome = "ok"
     /\ last.found)
        => /\ LastInteraction = {}
           /\ LastRead = {<<>>}
           /\ GetAllInteractionMemories(G0, last.user, last.iid) = {}
           /\ \A b \in NodesOf(G0, "MessageBlock") :
                \E i \in Interactions : b \in ChainBlocks(G0, nodes[i].user_id, i[2])
           /\ \A m \in Memories : nodes[m].interaction_id # last.iid

\* The memory ids of user u in the graph and in the vector index.
GraphMemoryIds(u) == {m[2] : m \in {x \in Memories : nodes[x].user_id = u}}
VecMemoryIds(u) == {e[2] : e \in {x \in vec : x[1] = u}}

\* C5: when no callback and no commit has failed, the memory ids of every
\* user in the graph are the memory ids of that user in the vector index.
C5_DualStore ==
    faults = 0 => \A u \in Users : GraphMemoryIds(u) = VecMemoryIds(u)

\* C6: when the vector-index add callback raises in save or update, the
\* graph is what it was before the operation, and nothing is stored under
\* the interaction id a failed save minted.
C6_CallbackRollback ==
    [][(last'.outcome = "callback_error" /\ last'.op \in {"save", "update"})
          => /\ nodes' = nodes
             /\ edges' = edges
             /\ last'.op = "save" =>
                  /\ MatchInteraction(Graph(nodes', edges'), last'.user, last'.iid) = {}
                  /\ GetInteractionMessages(Graph(nodes', edges'),
                                            last'.user, last'.iid) = {<<>>}
                  /\ \A m \in NodesOf(Graph(nodes', edges'), "Memory") :
                       m[2] \notin last'.mids]_vars

\* A save that reached the callback with a memory, and the callback raised.
C6_Witness ==
    /\ last.op = "save"
    /\ last.outcome = "callback_error"
    /\ last.called
    /\ last.mids # {}

\* C7: after a successful save the interaction reads back as exactly the
\* transcript saved, block for block.
C7_RoundTrip ==
    (/\ last.op = "save"
     /\ last.outcome = "ok"
     /\ LastInteraction # {})
        => LastRead = {last.incoming}

\* C8: an update whose incoming transcript is strictly shorter than the stored
\* one and matches it at every overlapping position succeeds, leaves the chain
\* as it was and updates the metadata.
C8_ShorterIncoming ==
    (/\ last.op = "update"
     /\ Plain(last.existing) \in Transcripts
     /\ Len(last.incoming) < Len(last.existing)
     /\ \A k \in 1..Len(last.incoming) :
          /\ last.existing[k].role = last.incoming[k].role
          /\ last.existing[k].content = last.incoming[k].content)
        => /\ last.outcome = "ok"
           /\ LastRead = {Plain(last.existing)}
           /\ \A i \in LastInteraction :
                nodes[i].updated_at = last.t /\ nodes[i].agent_id = last.agent

\* C9: no Date bucket exists without an interaction that references it; a
\* delete removes the bucket only the deleted interaction referenced.
C9_DateBucketReferenced ==
    \A d \in NodesOf(G0, "Date") : InNbrs(G0, d, "HAS_OCCURRENCE_ON") # {}

\* C10: there is one Date bucket for a user and calendar date at most, every
\* interaction references the bucket of the day it was last written on, and
\* no interaction has two occurrence links to one bucket.
C10_OneBucketPerDay ==
    /\ \A d, e \in NodesOf(G0, "Date") :
         (nodes[d].user_id = nodes[e].user_id /\ nodes[d].date = nodes[e].date)
             => d = e
    /\ \A i \in Interactions :
         \E d \in OutNbrs(G0, i, "HAS_OCCURRENCE_ON") :
           /\ nodes[d].user_id = nodes[i].user_id
           /\ nodes[d].date = Day(nodes[i].updated_at)
    /\ \A h \in edges : h.type = "HAS_OCCURRENCE_ON" => h.k = 1

\* Two interactions of one user written at different times of one day share
\* their bucket, and the update that ran last was on a day its interaction
\* already occurred on.
C10_Witness ==
    /\ last.op = "update"
    /\ last.outcome = "ok"
    /\ \E i \in LastInteraction, j \in Interactions :
         /\ i # j
         /\ nodes[i].user_id = nodes[j].user_id
         /\ nodes[i].updated_at # nodes[j].updated_at
         /\ Day(nodes[i].created_at) = Day(last.t)
         /\ OutNbrs(G0, i, "HAS_OCCURRENCE_ON") = OutNbrs(G0, j, "HAS_OCCURRENCE_ON")

\* C11: every memory has one outgoing supersession link at most, also when
\* two contrary memories name the same existing memory.
C11_SingleSupersession ==
    \A m \in Memories : Cardinality(OutNbrs(G0, m, "CONTRARY_UPDATE")) <= 1

\* C12: a contrary memory M2 recorded in another interaction than that of the
\* memory M1 it names is linked from M1; a later delete of the interaction of
\* M1 leaves M2 stored, listed for its own interaction and in the vector
\* index, and does not pass its id to the delete-by-ids callback.
C12_SupersessionSurvives ==
    [][/\ (last'.op \in {"save", "update"} /\ last'.outcome = "ok")
          => \A k \in 1..Len(last'.pairs) :
               \A m1 \in MatchMemory(G0, last'.user, last'.pairs[k].old) :
                 \A m2 \in MatchMemory(Graph(nodes', edges'), last'.user,
                                       last'.pairs[k].new) :
                   nodes[m1].interaction_id # last'.iid
                     => [type |-> "CONTRARY_UPDATE", src |-> m1, dst |-> m2,
                         k |-> 1] \in edges'
       /\ (last'.op = "delete" /\ last'.outcome = "ok")
          => \A h \in edges :
               (/\ h.type = "CONTRARY_UPDATE"
                /\ nodes[h.src].interaction_id = last'.iid
                /\ nodes[h.src].user_id = last'.user
                /\ nodes[h.dst].interaction_id # last'.iid)
                 => /\ h.dst \in DOMAIN nodes'
                    /\ nodes'[h.dst] = nodes[h.dst]
                    /\ h.dst[2] \notin last'.mids
                    /\ (<<last'.user, h.dst[2]>> \in vec
                          => <<last'.user, h.dst[2]>> \in vec')
                    /\ (MatchInteraction(G0, last'.user,
                                         nodes[h.dst].interaction_id) # {}
                          => h.dst[2] \in GetAllInteractionMemories(
                                 Graph(nodes', edges'), last'.user,
                                 nodes[h.dst].interaction_id))]_vars

\* The interaction of a superseded memory was deleted with success while the
\* memory that supersedes it belongs to another interaction that is stored.
C12_Witness ==
    /\ last.op = "delete"
    /\ last.outcome = "ok"
    /\ last.found
    /\ \E h \in edges :
         /\ h.type = "CONTRARY_UPDATE"
         /\ nodes[h.src].interaction_id = last.iid
         /\ nodes[h.dst].interaction_id # last.iid
         /\ MatchInteraction(G0, last.user, nodes[h.dst].interaction_id) # {}
         /\ h.dst[2] \in GetAllInteractionMemories(G0, last.user,
                                                   nodes[h.dst].interaction_id)

\* C13: an update or delete of an interaction that does not exist, a save for
\* a user that does not exist and a contrary memory that names a memory that
\* does not exist end in an error, without a call of the vector-index
\* callback and without a memory created.
C13_NotFound ==
    (\/ last.op \in {"update", "delete"} /\ ~last.found
     \/ last.op = "save" /\ MatchUser(G0, last.user) = {}
     \/ /\ last.op \in {"save", "update"}
        /\ \E k \in 1..Len(last.pairs) :
             MatchMemory(G0, last.user, last.pairs[k].old) = {})
        => /\ last.outcome # "ok"
           /\ ~last.called
           /\ \A id \in last.mids :
                /\ MatchMemory(G0, last.user, id) = {}
                /\ <<last.user, id>> \notin vec

\* The nodes that carry the user_id of user u.
OwnedBy(G, u) ==
    {x \in DOMAIN G.n : x[1] \in {"Interaction", "Memory", "Date"}
                          /\ G.n[x].user_id = u}

\* C14: a successful delete-all for a user leaves no interaction, no block,
\* no memory and no Date bucket of that user, has called the delete-all
\* callback, and leaves what every other user owns as it was.
C14_DeleteAll ==
    [][(last'.op = "delete_all" /\ last'.outcome = "ok")
          => /\ OwnedBy(Graph(nodes', edges'), last'.user) = {}
             /\ \A b \in NodesOf(Graph(nodes', edges'), "MessageBlock") :
                  \E i \in NodesOf(Graph(nodes', edges'), "Interaction") :
                    b \in ChainBlocks(Graph(nodes', edges'),
                                      nodes'[i].user_id, i[2])
             /\ last'.called
             /\ \A e \in vec' : e[1] # last'.user
             /\ \A e \in vec : e[1] # last'.user => e \in vec'
             /\ \A v \in Users \ {last'.user} :
                  /\ OwnedBy(Graph(nodes', edges'), v) = OwnedBy(G0, v)
                  /\ \A x \in OwnedBy(G0, v) :
                       /\ nodes'[x] = nodes[x]
                       /\ {h \in edges' : h.src = x \/ h.dst = x}
                            = {h \in edges : h.src = x \/ h.dst = x}
                       /\ x[1] = "Interaction" =>
                            GetInteractionMessages(Graph(nodes', edges'), v, x[2])
                              = GetInteractionMessages(G0, v, x[2])]_vars

\* C15: a successful update that read an empty transcript leaves exactly the
\* incoming transcript stored.
C15_RebuildFromEmpty ==
    (/\ last.op = "update"
     /\ last.outcome = "ok"
     /\ last.existing = <<>>)
        => LastRead = {last.incoming}

\* C16: every stored memory cites a block of the chain of its own
\* interaction, and a memory that stays stored changes only by gaining a
\* supersession link; a truncating update leaves no memory without source.
C16_MemorySources ==
    [][/\ \A m \in NodesOf(Graph(nodes', edges'), "Memory") :
            \E b \in OutNbrs(Graph(nodes', edges'), m, "MESSAGE_SOURCE") :
              b \in ChainBlocks(Graph(nodes', edges'), nodes'[m].user_id,
                                nodes'[m].interaction_id)
       /\ \A m \in Memories :
            m \in DOMAIN nodes'
              => /\ nodes'[m] = nodes[m]
                 /\ {h \in edges' : (h.src = m \/ h.dst = m)
                                      /\ h.type # "CONTRARY_UPDATE"}
                      = {h \in edges : (h.src = m \/ h.dst = m)
                                         /\ h.type # "CONTRARY_UPDATE"}
                 /\ {h \in edges : (h.src = m \/ h.dst = m)
                                     /\ h.type = "CONTRARY_UPDATE"
                                     /\ h.src \in DOMAIN nodes'
                                     /\ h.dst \in DOMAIN nodes'}
                      \subseteq edges']_vars

\* C17: when a statement of the transaction function fails, the operation
\* ends in that failure, no later statement runs, the vector-index callback
\* is not called and both stores are what they were before the operation.
C17_FirstFailureAborts ==
    [][last'.outcome = "db_error"
          => /\ nodes' = nodes
             /\ edges' = edges
             /\ vec' = vec
             /\ ~last'.called
             /\ last'.steps # <<>>
             /\ last'.steps[Len(last'.steps)] = "add_memories"
             /\ \A k \in 1..Len(last'.steps) :
                  last'.steps[k] \notin {"vector_add", "metadata"}]_vars

\* A save and an update whose memory cites a position the chain does not
\* have: the statement that links the memory to its source fails.
C17_Witness ==
    /\ last.outcome = "db_error"
    /\ last.op = "update"
    /\ last.found
    /\ last.mids # {}
    /\ Interactions # {}

\* C18: when an update committed between the read and the transaction of
\* another update of the same interaction, the update that commits last
\* wins: the stored transcript is its incoming transcript.
C18_LastCommitWins ==
    (/\ last.op = "update"
     /\ last.outcome = "ok"
     /\ last.raced = {"update"}
     /\ last.found
     /\ pending = {})
        => LastRead = {last.incoming}

\* C19: when a delete has completed, whatever ran between its read and its
\* transaction, the vector index holds no memory of the deleted interaction.
C19_DeleteIdsComplete ==
    [][(last'.op = "delete" /\ last'.outcome = "ok")
          => \A m \in Memories :
               (nodes[m].user_id = last'.user
                   /\ nodes[m].interaction_id = last'.iid)
                 => <<last'.user, m[2]>> \notin vec']_vars

\* The positions of step in the statements the last operation ran.
StepsAt(step) == {k \in 1..Len(last.steps) : last.steps[k] = step}

\* The last update ran one chain mutation, the one its directive selects.
OneChainMutation ==
    /\ Cardinality(StepsAt("from_top") \cup StepsAt("append")) = 1
    /\ last.tf = 0 => last.steps[1] = "from_top"
    /\ last.tf = -1 => last.steps[1] = "append"
    /\ last.tf > 0 => last.steps[1] = "truncate" /\ last.steps[2] = "append"
    /\ last.tf <= 0 => StepsAt("truncate") = {}

\* C20: an update that does not fail runs one chain mutation, then the
\* memory, supersession and vector-index steps, and ends in the metadata
\* update: no step, structural or external, comes after it.
C20_MetadataLast ==
    (last.op = "update" /\ last.outcome = "ok")
        => /\ OneChainMutation
           /\ last.steps[Len(last.steps)] = "metadata"
           /\ \A k \in StepsAt("vector_add") : \A j \in StepsAt("metadata") : k < j

\* C20 as amended: an update that does not fail runs one chain mutation,
\* then the memory and supersession steps when it brings memories, then the
\* metadata update, which is the last statement on the graph and has taken
\* effect; the vector-index callback runs after it, as the last step, exactly
\* when the update brings memories.
C20_CallbackAfterMetadata ==
    (last.op = "update" /\ last.outcome = "ok")
        => /\ OneChainMutation
           /\ Cardinality(StepsAt("metadata")) = 1
           /\ \A j \in StepsAt("metadata") :
                /\ \A k \in 1..Len(last.steps) :
                     k > j <=> last.steps[k] = "vector_add"
                /\ \A k \in StepsAt("add_memories") \cup StepsAt("link_contrary") :
                     2 <= k /\ k < j
           /\ StepsAt("add_memories") # {} <=> last.mids # {}
           /\ StepsAt("link_contrary") # {} <=> last.pairs # <<>>
           /\ Cardinality(StepsAt("vector_add")) = (IF last.mids # {} THEN 1 ELSE 0)
           /\ last.called <=> last.mids # {}
           /\ \A id \in last.mids : <<last.user, id>> \in vec
           /\ \A i \in LastInteraction :
                /\ nodes[i].updated_at = last.t
                /\ nodes[i].agent_id = last.agent
                /\ \E d \in OutNbrs(G0, i, "HAS_OCCURRENCE_ON") :
                     nodes[d].date = Day(last.t)

\* An update of a stored interaction that truncated, recorded a memory and
\* a supersession link and succeeded.
C20_Witness ==
    /\ last.op = "update"
    /\ last.outcome = "ok"
    /\ last.found
    /\ last.tf > 0
    /\ last.mids # {}
    /\ last.pairs # <<>>
    /\ \E h \in edges : h.type = "CONTRARY_UPDATE" /\ h.dst[2] \in last.mids

\* The blocks memory m is linked to as its sources.
SourcesOf(m) == OutNbrs(G0, m, "MESSAGE_SOURCE")

\* C21: a successful save or update given memories stores one Memory for each
\* of them, under the ids given to the add callback and listed for the
\* interaction, linked to the interaction and to exactly the blocks of its
\* chain at the cited positions, which carry the messages at those positions
\* of the transcript given.
C21_MemoriesRecorded ==
    (last.op \in {"save", "update"} /\ last.outcome = "ok")
        => /\ GetAllInteractionMemories(G0, last.user, last.iid) \cap last.mids
                = last.mids
           /\ last.mids # {} => last.called
           /\ \A k \in 1..Len(last.mems) :
                /\ <<last.user, last.mems[k].id>> \in vec
                /\ \E m \in MatchMemory(G0, last.user, last.mems[k].id) :
                     /\ OutNbrs(G0, m, "INTERACTION_SOURCE") = LastInteraction
                     /\ SourcesOf(m)
                          = {b \in ChainBlocks(G0, last.user, last.iid) :
                                 nodes[b].msg_position \in last.mems[k].src}
                     /\ \A b \in SourcesOf(m) :
                          /\ nodes[b].msg_position < Len(last.incoming)
                          /\ nodes[b].role
                               = last.incoming[nodes[b].msg_position + 1].role
                          /\ nodes[b].content
                               = last.incoming[nodes[b].msg_position + 1].content

\* The blocks of the interaction of the last operation, before the step, at
\* positions below k.
AncestorBlocks(k) ==
    {b \in ChainBlocks(G0, last'.user, last'.iid) : nodes[b].msg_position < k}

\* C22: an update that truncates at k >= 1 leaves every block at a position
\* below k as it was, with the links that lead to it and the source links of
\* the memories that cite it; after its truncation the chain ends at position
\* k - 1.
C22_AncestorsUntouched ==
    [][(last'.op = "update" /\ last'.outcome = "ok" /\ last'.tf >= 1)
          => /\ \A b \in AncestorBlocks(last'.tf) :
                  /\ b \in DOMAIN nodes'
                  /\ nodes'[b] = nodes[b]
                  /\ {h \in edges : h.dst = b} \subseteq edges'
                  /\ {h \in edges' : h.dst = b /\ h.type # "MESSAGE_SOURCE"}
                       \subseteq edges
             /\ \A b \in ChainBlocks(TruncateMessages(G0, last'.user, last'.iid,
                                                      last'.tf),
                                     last'.user, last'.iid) :
                  /\ b \in AncestorBlocks(last'.tf)
                  /\ nodes[b].msg_position = last'.tf - 1
                       => OutNbrs(TruncateMessages(G0, last'.user, last'.iid,
                                                   last'.tf), b, "IS_NEXT") = {}
             /\ \A b \in ChainBlocks(Graph(nodes', edges'), last'.user, last'.iid) :
                  nodes'[b].msg_position < last'.tf => b \in AncestorBlocks(last'.tf)
       ]_vars

\* An update truncated at k >= 1 the chain of an interaction one of whose
\* memories, recorded by an earlier call, cites a block below k.
C22_Witness ==
    /\ last.op = "update"
    /\ last.outcome = "ok"
    /\ last.found
    /\ last.tf >= 1
    /\ Len(last.existing) > last.tf
    /\ \E m \in Memories :
         /\ m[2] \notin last.mids
         /\ \E b \in SourcesOf(m) :
              /\ b \in ChainBlocks(G0, last.user, last.iid)
              /\ nodes[b].msg_position < last.tf

\* C23: when the transaction of a save or update fails to commit after the add
\* callback returned, the graph is rolled back while the vector index keeps
\* the ids the callback was given, none of which has a Memory in the graph.
C23_NoCompensation ==
    [][(/\ last'.op \in {"save", "update"}
        /\ last'.outcome = "commit_error"
        /\ last'.called)
          => /\ nodes' = nodes
             /\ edges' = edges
             /\ \A id \in last'.mids :
                  /\ <<last'.user, id>> \in vec'
                  /\ MatchMemory(Graph(nodes', edges'), last'.user, id) = {}
       ]_vars

\* The commit of a save or update that gave memories to the callback failed,
\* and the vector index holds an id that has no Memory in the graph.
C23_Witness ==
    /\ last.op \in {"save", "update"}
    /\ last.outcome = "commit_error"
    /\ last.called
    /\ last.mids # {}
    /\ \E id \in last.mids :
         /\ <<last.user, id>> \in vec
         /\ MatchMemory(G0, last.user, id) = {}

====
